---------------------------- MODULE Spec2Model ----------------------------
(***************************************************************************)
(* Model of AsteriskCache (src/unnamed/part_000): the queue/member cache,  *)
(* the per-extension event coalescing (debounce) engine, the connection    *)
(* controller with its connect-timeout and reconnect timers, and the       *)
(* _send command gateway.  One action per handler, timer callback or       *)
(* public method; every action is one run-to-completion turn of the        *)
(* single-threaded event loop.                                             *)
(***************************************************************************)
EXTENDS Integers, Sequences, FiniteSets, TLC

(***************************************************************************)
(* Bounds of the model (not program constants).                            *)
(***************************************************************************)
\* The environment is bounded by one of three budgets, chosen at start: how
\* many raw cache events (status, pause, added, removed, FullyBooted) the
\* transport delivers, how many connection inputs occur (connect() calls by
\* the host, lifecycle notifications of the transport, uncaught
\* ECONNREFUSED), and how many mutating commands the host issues.
\* a run that exercises the cache: the connection is only established
CacheRawEvents == 3
CacheLinkEvents == 2
\* a run that exercises the connection controller under a small cache
LinkRawEvents == 2
LinkLinkEvents == 3
\* a run that exercises the command gateway
GatewayRawEvents == 1
GatewayLinkEvents == 3
GatewayCommands == 1
\* raw events coalesced into one pending window of one extension
MaxWindow == 3
\* gateway calls in flight at once
MaxInFlight == 2
\* connect-timeout timers left armed without a handle
MaxStale == 1

(***************************************************************************)
(* Values of the environment.                                              *)
(***************************************************************************)
QueueNames == {"A", "B"}
Extensions == {"E1", "E2"}

\* the key under which the debounce timer of an extension is kept in
\* this.pendingEvents: `${extension}_timeout`
TimeoutKey(x) == x \o "_timeout"

\* the interface names a switch may use: those of Extensions, and one that is
\* the timer key of another
Interfaces == Extensions \cup {TimeoutKey("E1")}

\* the keys of this.pendingEvents
Keys == Interfaces \cup {TimeoutKey(x) : x \in Interfaces}
StatusKind == "QueueMemberStatus"
PauseKind == "QueueMemberPause"
Kinds == {StatusKind, PauseKind}

\* parseInt yields NaN on a string that does not start with digits; NaN is
\* an integer outside the range of every parsed field so that TLC can
\* compare it with numbers (NaN === 1 and NaN === 0 are false in the source)
NaN == -1

ParseInt(s) ==
    CASE s = "0" -> 0
      [] s = "1" -> 1
      [] s = "2" -> 2
      [] s = "3" -> 3
      [] s = "5" -> 5
      [] s = "7" -> 7
      [] s = "9" -> 9
      [] s = "10" -> 10
      [] OTHER -> NaN

\* parseFloat on the values the resync responses carry
ParseFloat(s) ==
    CASE s = "0.0" -> 0
      [] s = "0" -> 0
      [] s = "100.0" -> 100
      [] OTHER -> NaN

(***************************************************************************)
(* Raw events of the transport.  Every numeric field is a string, as the   *)
(* transport delivers it.                                                  *)
(***************************************************************************)
\* the field values a raw member event carries besides event, queue, interface
PauseOn ==
    [membername |-> "Agent", stateinterface |-> "SIP", membership |-> "dynamic",
     penalty |-> "0", callstaken |-> "3", lastcall |-> "5", lastpause |-> "7",
     logintime |-> "1", incall |-> "0", status |-> "1", paused |-> "1",
     pausedreason |-> "Lunch", wrapuptime |-> "0"]

PauseOff ==
    [membername |-> "Agent", stateinterface |-> "SIP", membership |-> "dynamic",
     penalty |-> "0", callstaken |-> "3", lastcall |-> "5", lastpause |-> "9",
     logintime |-> "1", incall |-> "0", status |-> "1", paused |-> "0",
     pausedreason |-> "", wrapuptime |-> "0"]

StatusBusy ==
    [membername |-> "Busy", stateinterface |-> "PJSIP", membership |-> "static",
     penalty |-> "2", callstaken |-> "3", lastcall |-> "5", lastpause |-> "0",
     logintime |-> "1", incall |-> "1", status |-> "2", paused |-> "0",
     pausedreason |-> "", wrapuptime |-> ""]

AddedFields ==
    [membername |-> "Agent", stateinterface |-> "SIP", membership |-> "dynamic",
     penalty |-> "0", callstaken |-> "0", lastcall |-> "0", lastpause |-> "0",
     logintime |-> "1", incall |-> "0", status |-> "1", paused |-> "0",
     pausedreason |-> "", wrapuptime |-> "0"]

RawEvent(kind, q, x, f) ==
    [event |-> kind, queue |-> q, interface |-> x,
     membername |-> f.membername, stateinterface |-> f.stateinterface,
     membership |-> f.membership, penalty |-> f.penalty,
     callstaken |-> f.callstaken, lastcall |-> f.lastcall,
     lastpause |-> f.lastpause, logintime |-> f.logintime,
     incall |-> f.incall, status |-> f.status, paused |-> f.paused,
     pausedreason |-> f.pausedreason, wrapuptime |-> f.wrapuptime]

\* the status and pause events the transport may deliver
CoalescedEvents ==
    {RawEvent(StatusKind, q, x, StatusBusy) : q \in QueueNames, x \in Interfaces}
    \cup {RawEvent(PauseKind, q, x, f) :
              q \in QueueNames, x \in Interfaces, f \in {PauseOn, PauseOff}}

AddedEvents ==
    {RawEvent("QueueMemberAdded", q, x, AddedFields) :
         q \in QueueNames, x \in Interfaces}

RemovedEvents ==
    {RawEvent("QueueMemberRemoved", q, x, AddedFields) :
         q \in QueueNames, x \in Interfaces}

(***************************************************************************)
(* Entries of a QueueStatus response.                                      *)
(***************************************************************************)
QueueParams(q) ==
    [event |-> "QueueParams", queue |-> q, max |-> "10", strategy |-> "rrmemory",
     calls |-> "2", holdtime |-> "5", talktime |-> "7", completed |-> "3",
     abandoned |-> "1", servicelevel |-> "0", servicelevelperf |-> "100.0",
     servicelevelperf2 |-> "100.0", weight |-> "0"]

QueueMember(q, x, st, pz) ==
    [event |-> "QueueMember", queue |-> q, name |-> "Listed", location |-> x,
     stateinterface |-> "SIP", membership |-> "static", penalty |-> "0",
     callstaken |-> "2", lastcall |-> "5", lastpause |-> "0",
     logintime |-> "1", incall |-> "0", status |-> st, paused |-> pz,
     pausedreason |-> "", wrapuptime |-> "0"]

\* two queue definitions followed by 2 and 1 member entries
ResponseTwoQueues ==
    [response |-> "Success", hasEvents |-> TRUE, message |-> "",
     events |-> << QueueParams("A"), QueueMember("A", "E1", "1", "0"),
                   QueueMember("A", "E2", "2", "0"),
                   QueueParams("B"), QueueMember("B", "E1", "1", "0") >>]

\* only queue B, with a member entry before the first queue definition
ResponseOnlyB ==
    [response |-> "Success", hasEvents |-> TRUE, message |-> "",
     events |-> << QueueMember("A", "E1", "1", "0"),
                   QueueParams("B"), QueueMember("B", "E2", "1", "1") >>]

\* a member entry delivered twice by the protocol
ResponseRepeated ==
    [response |-> "Success", hasEvents |-> TRUE, message |-> "",
     events |-> << QueueParams("A"), QueueMember("A", "E1", "1", "0"),
                   QueueMember("A", "E1", "1", "0") >>]

\* a response without an events list
ResponseNoEvents ==
    [response |-> "Success", hasEvents |-> FALSE, message |-> "", events |-> << >>]

\* the switch answers Error
ResponseError ==
    [response |-> "Error", hasEvents |-> FALSE, message |-> "denied", events |-> << >>]

\* the transport calls back with nothing (null / undefined)
ResponseNull ==
    [response |-> "null", hasEvents |-> FALSE, message |-> "", events |-> << >>]

QueueStatusResponses ==
    {ResponseTwoQueues, ResponseOnlyB, ResponseRepeated, ResponseNoEvents,
     ResponseError, ResponseNull}

CommandResponses ==
    {[response |-> "Success", hasEvents |-> FALSE, message |-> "", events |-> << >>],
     [response |-> "Follows", hasEvents |-> FALSE, message |-> "", events |-> << >>],
     ResponseError, ResponseNull}

(***************************************************************************)
(* The cache records.                                                      *)
(***************************************************************************)
\* the member record built from a raw QueueMemberStatus / QueueMemberAdded event
MemberFromEvent(e) ==
    [name |-> e.membername, extension |-> e.interface,
     stateInterface |-> e.stateinterface, membership |-> e.membership,
     penalty |-> ParseInt(e.penalty), callsTaken |-> ParseInt(e.callstaken),
     lastCall |-> ParseInt(e.lastcall), lastPause |-> ParseInt(e.lastpause),
     loginTime |-> ParseInt(e.logintime), inCall |-> ParseInt(e.incall),
     status |-> ParseInt(e.status), paused |-> ParseInt(e.paused),
     pausedReason |-> e.pausedreason, wrapupTime |-> ParseInt(e.wrapuptime)]

\* the member record built from a QueueMember entry of a resync response
MemberFromEntry(e) ==
    [name |-> e.name, extension |-> e.location,
     stateInterface |-> e.stateinterface, membership |-> e.membership,
     penalty |-> ParseInt(e.penalty), callsTaken |-> ParseInt(e.callstaken),
     lastCall |-> ParseInt(e.lastcall), lastPause |-> ParseInt(e.lastpause),
     loginTime |-> ParseInt(e.logintime), inCall |-> ParseInt(e.incall),
     status |-> ParseInt(e.status), paused |-> ParseInt(e.paused),
     pausedReason |-> e.pausedreason, wrapupTime |-> ParseInt(e.wrapuptime)]

\* the queue record built from a QueueParams entry, with no member yet
QueueFromParams(e) ==
    [name |-> e.queue, max |-> ParseInt(e.max), strategy |-> e.strategy,
     calls |-> ParseInt(e.calls), holdtime |-> ParseInt(e.holdtime),
     talktime |-> ParseInt(e.talktime), completed |-> ParseInt(e.completed),
     abandoned |-> ParseInt(e.abandoned),
     servicelevel |-> ParseInt(e.servicelevel),
     servicelevelperf |-> ParseFloat(e.servicelevelperf),
     servicelevelperf2 |-> ParseFloat(e.servicelevelperf2),
     weight |-> ParseInt(e.weight), members |-> << >>]

\* the queue created on a member-added event for a queue not seen before
DefaultQueue(q) ==
    [name |-> q, max |-> 0, strategy |-> "ringall", calls |-> 0,
     holdtime |-> 0, talktime |-> 0, completed |-> 0, abandoned |-> 0,
     servicelevel |-> 0, servicelevelperf |-> 0, servicelevelperf2 |-> 0,
     weight |-> 0, members |-> << >>]

\* members.findIndex(m => m.extension === x): the first position, 0 for -1
FindIndex(members, x) ==
    IF \E i \in 1..Len(members) : members[i].extension = x
    THEN CHOOSE i \in 1..Len(members) :
             /\ members[i].extension = x
             /\ \A j \in 1..(i - 1) : members[j].extension # x
    ELSE 0

\* the position of the queue named q in the Map (insertion order), 0 if absent
QueueIndex(qs, q) ==
    IF \E i \in 1..Len(qs) : qs[i].name = q
    THEN CHOOSE i \in 1..Len(qs) : qs[i].name = q
    ELSE 0

\* Map.set(name, queue): replaces in place, or appends a new key
MapSet(qs, queue) ==
    IF QueueIndex(qs, queue.name) = 0
    THEN Append(qs, queue)
    ELSE [qs EXCEPT ![QueueIndex(qs, queue.name)] = queue]

\* array.splice(i, 1)
Splice(s, i) == SubSeq(s, 1, i - 1) \o SubSeq(s, i + 1, Len(s))

(***************************************************************************)
(* Notifications.  Every notification has the same fields; the ones a kind *)
(* does not carry keep the value of NoNotification.                        *)
(***************************************************************************)
NoMember == [extension |-> ""]

NoNotification ==
    [type |-> "", queues |-> << >>, queue |-> "", member |-> NoMember,
     paused |-> NaN, code |-> "", delay |-> 0, all |-> << >>]

QueuesUpdated(qs) == [NoNotification EXCEPT !.type = "queuesUpdated", !.all = qs]

MemberAdded(q, m) ==
    [NoNotification EXCEPT !.type = "memberAdded", !.queue = q, !.member = m]

MemberRemoved(q, m) ==
    [NoNotification EXCEPT !.type = "memberRemoved", !.queue = q, !.member = m]

\* memberStatusChanged / memberPauseChanged
MergedChange(type, names, m) ==
    [NoNotification EXCEPT !.type = type, !.queues = names, !.member = m,
                           !.paused = m.paused]

ConnectionError(code) ==
    [NoNotification EXCEPT !.type = "connectionError", !.code = code]

Signal(type) == [NoNotification EXCEPT !.type = type]

MergedTypes == {"memberStatusChanged", "memberPauseChanged"}

(***************************************************************************)
(* The state.                                                              *)
(***************************************************************************)
VARIABLES
    queues,             \* this.queues: the Map as a sequence in insertion order
    pendingEvents,      \* this.pendingEvents, the entries keyed by extension
    pendingTimeouts,    \* per extension, the armed debounce timers, oldest
                        \* first: the kind each will fire with and whether
                        \* its handle is held under `<extension>_timeout`
    isConnected,        \* this.isConnected
    isReconnecting,     \* this.isReconnecting
    shouldReconnect,    \* this.shouldReconnect
    connectionTimeout,  \* this.connectionTimeout: TRUE when it holds an armed timer
    staleTimers,        \* armed connect-timeout timers no handle refers to
    reconnectTimeout,   \* this.reconnectTimeout: "null", "armed" or "fired"
    listeners,          \* handlers registered on the transport, per event
    socketErrorListeners, \* handlers registered on the transport's socket
    nami,               \* the transport: "idle", "opening", "open"
    opens,              \* times nami.open() was called in the last turn
    sends,              \* gateway calls in flight
    exited,             \* process.exit was called
    closing,            \* cleanup is suspended in await nami.close()
    emitted,            \* the notifications emitted by the last turn, in order
    result,             \* what a mutating command returned in the last turn
    last,               \* the last turn: which handler ran, on which input
    window,             \* per extension: the raw events received since its
                        \* pending window opened (their queue names in order,
                        \* their kinds, the newest of them)
    fired,              \* per extension: the queue names of each window that
                        \* fired so far, oldest first
    before,             \* the state the last turn started from
    budget,             \* the inputs the environment may still deliver
    nRaw, nLink, nCmd   \* inputs consumed so far

cacheVars == << queues, pendingEvents, pendingTimeouts, window, fired >>
connVars == << isConnected, isReconnecting, shouldReconnect, connectionTimeout,
               staleTimers, reconnectTimeout, listeners, socketErrorListeners,
               nami, exited, closing >>
vars == << queues, pendingEvents, pendingTimeouts, isConnected, isReconnecting,
           shouldReconnect, connectionTimeout, staleTimers, reconnectTimeout,
           listeners, socketErrorListeners, nami, opens, sends, exited, closing,
           emitted, result, last, window, fired, before, budget, nRaw, nLink,
           nCmd >>

BudgetsFor(interfaces) ==
    {[raw |-> CacheRawEvents, link |-> CacheLinkEvents, cmd |-> 0,
      interfaces |-> interfaces],
     [raw |-> LinkRawEvents, link |-> LinkLinkEvents, cmd |-> 0,
      interfaces |-> interfaces],
     [raw |-> GatewayRawEvents, link |-> GatewayLinkEvents,
      cmd |-> GatewayCommands, interfaces |-> interfaces]}

\* the switch names its interfaces E1 and E2
Budgets == BudgetsFor(Extensions)

\* the switch names its interfaces E1 and E1_timeout
KeyedBudgets == BudgetsFor({"E1", TimeoutKey("E1")})

NamiEvents == {"namiConnected", "namiConnectionClose", "namiInvalidPeer",
               "namiEvent", "namiConnectionError"}

NoEvent == [event |-> "none", queues |-> << >>]

\* a Timeout object kept in this.pendingEvents, as the code sees it when it
\* reads it as a pending event: truthy, with none of the fields of an event
Handle == [event |-> "timeout", queue |-> "undefined",
           interface |-> "undefined", queues |-> << "undefined" >>]

HasPending(x) == pendingEvents[x].event # "none"

\* what is recorded of the open window of an extension: the queue names and
\* kinds of its raw events, the newest of them, and whether a resync has
\* installed a new queue map since the newest of them arrived
NoWindow == [names |-> << >>, kinds |-> {}, newest |-> NoEvent,
             resynced |-> FALSE]

\* what every turn records: the state it started from
Frame == /\ before' = [queues |-> queues, isConnected |-> isConnected,
                       sends |-> sends, pendingEvents |-> pendingEvents,
                       pendingTimeouts |-> pendingTimeouts,
                       shouldReconnect |-> shouldReconnect,
                       connectionTimeout |-> connectionTimeout,
                       staleTimers |-> staleTimers,
                       reconnectTimeout |-> reconnectTimeout,
                       listeners |-> listeners, nami |-> nami]
         /\ budget' = budget

\* the record of a turn: the handler that ran, the queue and extension it
\* was about (for a gateway turn, queue holds the caller), how it went, the
\* raw event or response it was given, for a firing the window it fired,
\* for a settled resync the queue map at the time it was triggered, and for
\* a gateway callback whether the promise of its call had settled before
Turn(op, q, x, d) ==
    [op |-> op, queue |-> q, extension |-> x, detail |-> d,
     input |-> NoEvent, window |-> NoWindow, trigger |-> << >>,
     settled |-> FALSE]

\* the state after construction, the switch and its load being one of
\* profiles
InitWith(profiles) ==
    /\ queues = << >>
    /\ pendingEvents = [k \in Keys |-> NoEvent]
    /\ pendingTimeouts = [x \in Interfaces |-> << >>]
    /\ isConnected = FALSE
    /\ isReconnecting = FALSE
    /\ shouldReconnect = TRUE
    /\ connectionTimeout = FALSE
    /\ staleTimers = 0
    /\ reconnectTimeout = "null"
    /\ listeners = [n \in NamiEvents |-> 0]
    /\ socketErrorListeners = 0
    /\ nami = "idle"
    /\ opens = 0
    /\ sends = << >>
    /\ exited = FALSE
    /\ closing = FALSE
    /\ emitted = << >>
    /\ result = "none"
    /\ last = Turn("constructor", "", "", "")
    /\ window = [x \in Interfaces |-> NoWindow]
    /\ fired = [x \in Interfaces |-> << >>]
    /\ before = [queues |-> << >>, isConnected |-> FALSE, sends |-> << >>,
                 pendingEvents |-> [k \in Keys |-> NoEvent],
                 pendingTimeouts |-> [x \in Interfaces |-> << >>],
                 shouldReconnect |-> TRUE, connectionTimeout |-> FALSE,
                 staleTimers |-> 0, reconnectTimeout |-> "null",
                 listeners |-> [n \in NamiEvents |-> 0], nami |-> "idle"]
    /\ budget \in profiles
    /\ nRaw = 0
    /\ nLink = 0
    /\ nCmd = 0

Init == InitWith(Budgets)

(***************************************************************************)
(* Event coalescing: scheduleEventProcessing and processPendingEvent.      *)
(***************************************************************************)
\* faulty variant: q is compared with the last name only
AddQueueNameUnlessLast(names, q) ==
    IF names # << >> /\ names[Len(names)] = q THEN names ELSE Append(names, q)

\* faulty variant: push(q) without the includes(q) test
AddQueueNameAlways(names, q) == Append(names, q)

\* existingEvent.queues after `if (!includes(q)) push(q)`
AddQueueName(names, q) ==
    IF \E i \in 1..Len(names) : names[i] = q THEN names ELSE Append(names, q)

\* { ...event, queues: names }
WithQueues(e, names) ==
    [f \in DOMAIN e \cup {"queues"} |-> IF f = "queues" THEN names ELSE e[f]]

\* faulty variant: the payload of the first event of the window is kept
PendingAfterKeepsFirst(existing, e) ==
    IF existing.event # "none"
    THEN [existing EXCEPT !.queues = AddQueueName(existing.queues, e.queue)]
    ELSE WithQueues(e, << e.queue >>)

\* the entry scheduleEventProcessing stores under the extension
PendingAfter(existing, e) ==
    IF existing.event # "none"
    THEN WithQueues(e, AddQueueName(existing.queues, e.queue))
    ELSE WithQueues(e, << e.queue >>)

\* faulty variant: this.pendingEvents.delete(extension) is missing
PendingNotDeleted(entry) == entry

\* the entry of the extension after this.pendingEvents.delete(extension)
PendingDeleted(entry) == NoEvent

\* faulty variant: a Status firing merges the status field into the old
\* record instead of building the record from the payload
UpdatedMemberMergesStatus(oldMember, event, eventType) ==
    IF eventType = StatusKind
    THEN [oldMember EXCEPT !.status = ParseInt(event.status)]
    ELSE IF eventType = PauseKind
         THEN [oldMember EXCEPT !.paused = ParseInt(event.paused),
                                !.pausedReason = event.pausedreason,
                                !.lastPause = ParseInt(event.lastpause)]
         ELSE oldMember

\* newMember of processPendingEvent
UpdatedMember(oldMember, event, eventType) ==
    IF eventType = StatusKind
    THEN MemberFromEvent(event)
    ELSE IF eventType = PauseKind
         THEN [oldMember EXCEPT !.paused = ParseInt(event.paused),
                                !.pausedReason = event.pausedreason,
                                !.lastPause = ParseInt(event.lastpause)]
         ELSE oldMember

\* faulty variant: a queue or a member the loop does not find is created
ApplyToQueueUpserts(qs, queueName, event, eventType) ==
    LET located == IF QueueIndex(qs, queueName) = 0
                   THEN MapSet(qs, DefaultQueue(queueName))
                   ELSE qs
        qi == QueueIndex(located, queueName)
        mi == FindIndex(located[qi].members, event.interface)
    IN  IF mi = 0
        THEN [located EXCEPT ![qi].members = Append(@, MemberFromEvent(event))]
        ELSE [located EXCEPT ![qi].members[mi] =
                                 UpdatedMember(@, event, eventType)]

\* the body of the loop over the affected queues, for one queue name
ApplyToQueue(qs, queueName, event, eventType) ==
    LET qi == QueueIndex(qs, queueName) IN
    IF qi = 0
    THEN qs
    ELSE LET mi == FindIndex(qs[qi].members, event.interface) IN
         IF mi = 0
         THEN qs
         ELSE [qs EXCEPT ![qi].members[mi] =
                             UpdatedMember(@, event, eventType)]

\* for (const queueName of queues) { ... }
RECURSIVE ApplyToQueues(_, _, _, _)
ApplyToQueues(qs, names, event, eventType) ==
    IF names = << >>
    THEN qs
    ELSE ApplyToQueues(ApplyToQueue(qs, Head(names), event, eventType),
                       Tail(names), event, eventType)

MergedType(eventType) ==
    IF eventType = StatusKind THEN "memberStatusChanged" ELSE "memberPauseChanged"

\* the merged notification processPendingEvent emits after the loop, if any
MergedNotifications(qs, event, eventType) ==
    LET qi == QueueIndex(qs, event.queues[1]) IN
    IF eventType \notin Kinds \/ qi = 0
    THEN << >>
    ELSE LET mi == FindIndex(qs[qi].members, event.interface) IN
         IF mi = 0
         THEN << >>
         ELSE << MergedChange(MergedType(eventType), event.queues,
                              qs[qi].members[mi]) >>

\* faulty variant: the notifications are emitted before the loop writes the
\* update into the queues
EmittedBeforeWrites(old, new, event, eventType) ==
    MergedNotifications(old, event, eventType) \o << QueuesUpdated(old) >>

\* what processPendingEvent emits, old and new being the queue map before
\* and after its loop: the merged notification, if any, then queuesUpdated
EmittedByFiring(old, new, event, eventType) ==
    MergedNotifications(new, event, eventType) \o << QueuesUpdated(new) >>

\* a debounce timer just armed by setTimeout, its handle about to be stored
Timer(eventType) == [kind |-> eventType, held |-> TRUE]

\* clearTimeout(handle): the timer the handle refers to is no longer armed
Cleared(timers) == SelectSeq(timers, LAMBDA t : ~t.held)

\* the handle kept under `<extension>_timeout` is deleted or overwritten:
\* the timers stay armed, none is held any more
Released(timers) == [i \in 1..Len(timers) |-> [timers[i] EXCEPT !.held = FALSE]]

\* faulty variant: the timer held for the extension is not cleared before
\* the new one is armed
TimersNotCleared(timers, slot, eventType) ==
    Append(Released(timers), Timer(eventType))

\* faulty variant: the new timer is bound to the kind of the timer it
\* replaces, the kind of the first event of the window
TimersKeepKind(timers, slot, eventType) ==
    Append(Released(IF slot.event = "timeout" THEN Cleared(timers) ELSE timers),
           Timer(IF timers = << >> THEN eventType ELSE timers[1].kind))

\* the armed timers of the extension after scheduleEventProcessing, slot
\* being what the Map holds under `<extension>_timeout`: clearTimeout on it
\* (which acts only if it is a Timeout object), then setTimeout of a new
\* timer bound to eventType, whose handle replaces it
TimersAfterSchedule(timers, slot, eventType) ==
    Append(Released(IF slot.event = "timeout" THEN Cleared(timers) ELSE timers),
           Timer(eventType))

CanDeliver == /\ ~exited
              /\ nami = "open"
              /\ listeners["namiEvent"] > 0

\* handleEvent, cases QueueMemberStatus and QueueMemberPause:
\* scheduleEventProcessing(event.interface, event.event, event).
\* The entry is stored under the interface name and the handle of the new
\* timer under `<interface>_timeout`, in the same Map: storing the entry
\* overwrites a handle kept under that name, storing the handle overwrites
\* an entry kept under that key.
ScheduleEventProcessing(e) ==
    LET x == e.interface
        stored == [pendingEvents EXCEPT ![x] = PendingAfter(@, e)]
        slot == stored[TimeoutKey(x)]
    IN
    /\ CanDeliver
    /\ nRaw < budget.raw
    /\ x \in budget.interfaces
    /\ Len(window[x].names) < MaxWindow
    /\ pendingEvents' = [stored EXCEPT ![TimeoutKey(x)] = Handle]
    /\ pendingTimeouts' =
           [y \in Interfaces |->
                IF y = x
                THEN TimersAfterSchedule(pendingTimeouts[x], slot, e.event)
                ELSE IF TimeoutKey(y) = x
                     THEN Released(pendingTimeouts[y])
                     ELSE pendingTimeouts[y]]
    /\ window' = [window EXCEPT ![x] = [names |-> Append(@.names, e.queue),
                                        kinds |-> @.kinds \cup {e.event},
                                        newest |-> e,
                                        resynced |-> FALSE]]
    /\ nRaw' = nRaw + 1
    /\ emitted' = << >>
    /\ result' = "none"
    /\ opens' = 0
    /\ last' = [Turn("scheduleEventProcessing", e.queue, x, e.event)
                    EXCEPT !.input = e]
    /\ UNCHANGED << queues, fired, connVars, sends, nLink, nCmd >>
    /\ Frame

\* a debounce timer of extension x fires: processPendingEvent(x, eventType).
\* The timer that fired is no longer armed.  If the Map holds something
\* under x it is taken for the pending event, and the keys x and
\* `x_timeout` are deleted; no timer is cleared.
ProcessPendingEvent(x) ==
    \E t \in 1..Len(pendingTimeouts[x]) :
        LET eventType == pendingTimeouts[x][t].kind
            event == pendingEvents[x]
        IN
        /\ ~exited
        /\ IF ~HasPending(x)
           THEN /\ pendingTimeouts' = [pendingTimeouts EXCEPT ![x] = Splice(@, t)]
                /\ emitted' = << >>
                /\ UNCHANGED << queues, pendingEvents, window, fired >>
           ELSE /\ pendingEvents' =
                       [pendingEvents EXCEPT ![x] = PendingDeleted(@),
                                             ![TimeoutKey(x)] = NoEvent]
                /\ pendingTimeouts' =
                       [y \in Interfaces |->
                            IF y = x
                            THEN Released(Splice(pendingTimeouts[x], t))
                            ELSE IF TimeoutKey(y) = x
                                 THEN Released(pendingTimeouts[y])
                                 ELSE pendingTimeouts[y]]
                /\ window' = [window EXCEPT ![x] = NoWindow]
                /\ fired' = [fired EXCEPT ![x] = Append(@, window[x].names)]
                /\ queues' =
                       ApplyToQueues(queues, event.queues, event, eventType)
                /\ emitted' = EmittedByFiring(queues, queues', event, eventType)
        /\ result' = "none"
        /\ opens' = 0
        /\ last' = [Turn("processPendingEvent", "", x, eventType)
                        EXCEPT !.input = event, !.window = window[x]]
        /\ UNCHANGED << connVars, sends, nRaw, nLink, nCmd >>
        /\ Frame

(***************************************************************************)
(* Direct membership events.                                               *)
(***************************************************************************)
\* faulty variant: the member is pushed without the findIndex test
QueuesAfterAddedAlways(qs, e) ==
    LET located == IF QueueIndex(qs, e.queue) = 0
                   THEN MapSet(qs, DefaultQueue(e.queue))
                   ELSE qs
    IN  [located EXCEPT ![QueueIndex(located, e.queue)].members =
                            Append(@, MemberFromEvent(e))]

\* the queue map after handleQueueMemberAdded(e)
QueuesAfterAdded(qs, e) ==
    LET located == IF QueueIndex(qs, e.queue) = 0
                   THEN MapSet(qs, DefaultQueue(e.queue))
                   ELSE qs
        qi == QueueIndex(located, e.queue)
    IN  IF FindIndex(located[qi].members, e.interface) = 0
        THEN [located EXCEPT ![qi].members = Append(@, MemberFromEvent(e))]
        ELSE located

\* what handleQueueMemberAdded(e) emits, qs being the map before the call
EmittedByAdded(qs, e) ==
    LET qi == QueueIndex(qs, e.queue) IN
    IF qi = 0 \/ FindIndex(qs[qi].members, e.interface) = 0
    THEN << MemberAdded(e.queue, MemberFromEvent(e)),
            QueuesUpdated(QueuesAfterAdded(qs, e)) >>
    ELSE << >>

\* faulty variant: splice(memberIndex, 1) without the memberIndex !== -1 test:
\* splice(-1, 1) removes the last member
QueuesAfterRemovedUnchecked(qs, e) ==
    LET qi == QueueIndex(qs, e.queue) IN
    IF qi = 0
    THEN qs
    ELSE LET mi == FindIndex(qs[qi].members, e.interface) IN
         [qs EXCEPT ![qi].members =
                        Splice(@, IF mi = 0 THEN Len(@) ELSE mi)]

\* the queue map after handleQueueMemberRemoved(e)
QueuesAfterRemoved(qs, e) ==
    LET qi == QueueIndex(qs, e.queue) IN
    IF qi = 0
    THEN qs
    ELSE LET mi == FindIndex(qs[qi].members, e.interface) IN
         IF mi = 0
         THEN qs
         ELSE [qs EXCEPT ![qi].members = Splice(@, mi)]

\* what handleQueueMemberRemoved(e) emits, qs being the map before the call
EmittedByRemoved(qs, e) ==
    LET qi == QueueIndex(qs, e.queue) IN
    IF qi = 0
    THEN << >>
    ELSE LET mi == FindIndex(qs[qi].members, e.interface) IN
         IF mi = 0
         THEN << >>
         ELSE << MemberRemoved(e.queue, qs[qi].members[mi]),
                 QueuesUpdated(QueuesAfterRemoved(qs, e)) >>

\* handleEvent, case QueueMemberAdded
HandleQueueMemberAdded(e) ==
    /\ CanDeliver
    /\ nRaw < budget.raw
    /\ e.interface \in budget.interfaces
    /\ queues' = QueuesAfterAdded(queues, e)
    /\ emitted' = EmittedByAdded(queues, e)
    /\ nRaw' = nRaw + 1
    /\ result' = "none"
    /\ opens' = 0
    /\ last' = [Turn("handleQueueMemberAdded", e.queue, e.interface, "")
                    EXCEPT !.input = e]
    /\ UNCHANGED << pendingEvents, pendingTimeouts, window, fired, connVars, sends,
                    nLink, nCmd >>
    /\ Frame

\* handleEvent, case QueueMemberRemoved
HandleQueueMemberRemoved(e) ==
    /\ CanDeliver
    /\ nRaw < budget.raw
    /\ e.interface \in budget.interfaces
    /\ queues' = QueuesAfterRemoved(queues, e)
    /\ emitted' = EmittedByRemoved(queues, e)
    /\ nRaw' = nRaw + 1
    /\ result' = "none"
    /\ opens' = 0
    /\ last' = [Turn("handleQueueMemberRemoved", e.queue, e.interface, "")
                    EXCEPT !.input = e]
    /\ UNCHANGED << pendingEvents, pendingTimeouts, window, fired, connVars, sends,
                    nLink, nCmd >>
    /\ Frame

(***************************************************************************)
(* Full resync: updateQueues.                                              *)
(***************************************************************************)
\* the loop of updateQueues over response.events; cur is currentQueue's name,
\* "" for null
RECURSIVE BuildQueues(_, _, _)
BuildQueues(qs, cur, events) ==
    IF events = << >>
    THEN qs
    ELSE LET e == Head(events) IN
         IF e.event = "QueueParams"
         THEN BuildQueues(MapSet(qs, QueueFromParams(e)), e.queue, Tail(events))
         ELSE IF e.event = "QueueMember" /\ cur # ""
              THEN BuildQueues(
                       [qs EXCEPT ![QueueIndex(qs, cur)].members =
                                      Append(@, MemberFromEntry(e))],
                       cur, Tail(events))
              ELSE BuildQueues(qs, cur, Tail(events))

\* this.queues.clear() followed by the loop
Resynced(response) == BuildQueues(<< >>, "", response.events)

(***************************************************************************)
(* The command gateway: _send.                                             *)
(***************************************************************************)
\* how the response callback of _send settles the promise
Outcome(response) ==
    IF response.response = "null"
    THEN "InvalidResponse"
    ELSE IF response.response = "Error" THEN "RemoteError" ELSE "resolved"

\* faulty variant: _send without the connection check
AcceptsAlways(connected) == TRUE

\* _send accepts the action: the connection check at its top
Accepts(connected) == connected

\* a call in flight: the action was handed to nami.send and the timeout
\* timer armed
\* trigger remembers the queue map at the call, for the properties
InFlight(caller, qs) ==
    [caller |-> caller, timer |-> TRUE, settled |-> FALSE, trigger |-> qs]

Commands == {"pauseMember", "unpauseMember", "addMemberToQueue",
             "removeMemberFromQueue"}

\* handleEvent, case FullyBooted: updateQueues() up to its await
HandleFullyBooted ==
    /\ CanDeliver
    /\ nRaw < budget.raw
    /\ IF Accepts(isConnected)
       THEN /\ Len(sends) < MaxInFlight
            /\ sends' = Append(sends, InFlight("updateQueues", queues))
            /\ last' = Turn("updateQueues", "", "", "dispatched")
       ELSE /\ sends' = sends
            /\ last' = Turn("updateQueues", "", "", "NotConnected")
    /\ nRaw' = nRaw + 1
    /\ emitted' = << >>
    /\ result' = "none"
    /\ opens' = 0
    /\ UNCHANGED << cacheVars, connVars, nLink, nCmd >>
    /\ Frame

\* pauseMember, unpauseMember, addMemberToQueue, removeMemberFromQueue up to
\* their await
Command(op) ==
    /\ ~exited
    /\ nCmd < budget.cmd
    /\ IF Accepts(isConnected)
       THEN /\ Len(sends) < MaxInFlight
            /\ sends' = Append(sends, InFlight(op, << >>))
            /\ result' = "none"
            /\ last' = Turn(op, "", "", "dispatched")
       ELSE /\ sends' = sends
            /\ result' = "false"
            /\ last' = Turn(op, "", "", "NotConnected")
    /\ nCmd' = nCmd + 1
    /\ emitted' = << >>
    /\ opens' = 0
    /\ UNCHANGED << cacheVars, connVars, nRaw, nLink >>
    /\ Frame

\* faulty variant: the rejection of _send is not caught
ReturnedUncaught(outcome, response) ==
    IF outcome = "resolved"
    THEN (IF response.response = "Success" THEN "true" ELSE "false")
    ELSE "raised"

\* what a mutating command returns once its _send has settled
Returned(outcome, response) ==
    IF outcome = "resolved" /\ response.response = "Success"
    THEN "true"
    ELSE "false"

\* faulty variant: this.queues.clear() runs before the response is looked at
QueuesClearedFirst(qs, outcome, response) ==
    IF outcome = "resolved" /\ response.hasEvents
    THEN Resynced(response)
    ELSE << >>

\* faulty variant: this.queues.clear() is missing
QueuesNotCleared(qs, outcome, response) ==
    IF outcome = "resolved" /\ response.hasEvents
    THEN BuildQueues(qs, "", response.events)
    ELSE qs

\* the queue map after updateQueues resumes with this outcome
QueuesAfterResync(qs, outcome, response) ==
    IF outcome = "resolved" /\ response.hasEvents THEN Resynced(response) ELSE qs

\* faulty variant: queuesUpdated is also emitted right after this.queues.clear()
EmittedByResyncEarly(qs, outcome, response) ==
    IF outcome = "resolved" /\ response.hasEvents
    THEN << QueuesUpdated(<< >>),
            QueuesUpdated(QueuesAfterResync(qs, outcome, response)) >>
    ELSE << >>

\* what updateQueues emits when it resumes with this outcome
EmittedByResync(qs, outcome, response) ==
    IF outcome = "resolved" /\ response.hasEvents
    THEN << QueuesUpdated(QueuesAfterResync(qs, outcome, response)) >>
    ELSE << >>

\* faulty variant: a resync that installs a new map drops the pending events
PendingDrainedByResync(pending, outcome, response) ==
    IF outcome = "resolved" /\ response.hasEvents
    THEN [x \in DOMAIN pending |-> NoEvent]
    ELSE pending

\* the pending-event table after updateQueues resumes: it is not touched
PendingAfterResync(pending, outcome, response) == pending

\* the continuation of the caller of _send, once the promise has settled
Settle(caller, outcome, response) ==
    /\ IF caller = "updateQueues"
       THEN /\ queues' = QueuesAfterResync(queues, outcome, response)
            /\ emitted' = EmittedByResync(queues, outcome, response)
            /\ result' = "none"
            /\ pendingEvents' =
                   PendingAfterResync(pendingEvents, outcome, response)
            /\ window' =
                   [x \in Interfaces |->
                        IF /\ window[x].names # << >>
                           /\ outcome = "resolved" /\ response.hasEvents
                        THEN [window[x] EXCEPT !.resynced = TRUE]
                        ELSE window[x]]
       ELSE /\ queues' = queues
            /\ emitted' = << >>
            /\ result' = Returned(outcome, response)
            /\ UNCHANGED << pendingEvents, window >>

\* faulty variant: resolve and reject act again on a settled promise
NeverSettled(call) == FALSE

\* the promise of _send has settled: resolve and reject no longer act on it
Settled(call) == call.settled

\* the transport calls the response callback of the i-th call in flight
SendResponse(i, response) ==
    /\ ~exited
    /\ nami = "open"
    /\ i \in 1..Len(sends)
    /\ response \in IF sends[i].caller = "updateQueues"
                    THEN QueueStatusResponses
                    ELSE CommandResponses
    /\ sends' = Splice(sends, i)
    /\ IF Settled(sends[i])
       THEN /\ queues' = queues
            /\ emitted' = << >>
            /\ result' = "none"
            /\ UNCHANGED << pendingEvents, window >>
            /\ last' = [Turn("sendResponse", "", "", "ignored")
                            EXCEPT !.input = response,
                                   !.settled = sends[i].settled]
       ELSE /\ Settle(sends[i].caller, Outcome(response), response)
            /\ last' = [Turn("sendResponse", sends[i].caller, "",
                              Outcome(response))
                            EXCEPT !.input = response,
                                   !.trigger = sends[i].trigger,
                                   !.settled = sends[i].settled]
    /\ opens' = 0
    /\ UNCHANGED << pendingTimeouts, fired, connVars, nRaw, nLink, nCmd >>
    /\ Frame

\* the timeout timer of the i-th call in flight fires; the transport may
\* still answer later (answersLater) or never
SendTimeout(i, answersLater) ==
    /\ ~exited
    /\ i \in 1..Len(sends)
    /\ sends[i].timer
    /\ sends' = IF answersLater
                THEN [sends EXCEPT ![i] = [@ EXCEPT !.timer = FALSE,
                                                    !.settled = TRUE,
                                                    !.trigger = << >>]]
                ELSE Splice(sends, i)
    /\ Settle(sends[i].caller, "Timeout", ResponseNull)
    /\ last' = [Turn("sendTimeout", sends[i].caller, "", "Timeout")
                    EXCEPT !.trigger = sends[i].trigger,
                           !.settled = sends[i].settled]
    /\ opens' = 0
    /\ UNCHANGED << pendingTimeouts, fired, connVars, nRaw, nLink, nCmd >>
    /\ Frame

(***************************************************************************)
(* The connection controller.                                              *)
(***************************************************************************)
\* faulty variant: the guard of connect() does not test shouldReconnect
ConnectIgnoresShutdown(reconnecting, allowed) == reconnecting

\* connect() returns at once
ConnectIsNoOp(reconnecting, allowed) == reconnecting \/ ~allowed

\* faulty variant: connect() registers its handlers without removing the
\* ones registered before
ListenersAdded(registered) == [n \in NamiEvents |-> registered[n] + 1]

\* the handlers registered on the transport after connect():
\* removeAllListeners(n) and then on(n, handler), for each of the five events
ListenersReplaced(registered) == [n \in NamiEvents |-> 1]

\* the body of connect(); timerFired says the reconnect timer called it.
\* this.isReconnecting is set at the top and reset in the finally block of
\* the same turn.  An armed connect-timeout timer whose handle is overwritten
\* stays armed (stale).  nami.open() makes a new socket, which carries no
\* error handler of the cache until handleConnection adds one.
ConnectBody ==
    IF ConnectIsNoOp(isReconnecting, shouldReconnect)
    THEN /\ opens' = 0
         /\ UNCHANGED << isReconnecting, connectionTimeout, staleTimers,
                         listeners, socketErrorListeners, nami >>
    ELSE /\ isReconnecting' = FALSE
         /\ listeners' = ListenersReplaced(listeners)
         /\ socketErrorListeners' = 0
         /\ IF connectionTimeout
            THEN /\ staleTimers < MaxStale
                 /\ staleTimers' = staleTimers + 1
            ELSE staleTimers' = staleTimers
         /\ connectionTimeout' = TRUE
         /\ nami' = "opening"
         /\ opens' = 1

\* the host calls connect()
Connect ==
    /\ ~exited
    /\ nLink < budget.link
    /\ ConnectBody
    /\ nLink' = nLink + 1
    /\ emitted' = << >>
    /\ result' = "none"
    /\ last' = Turn("connect", "", "",
                    IF ConnectIsNoOp(isReconnecting, shouldReconnect)
                    THEN "no-op" ELSE "open")
    /\ UNCHANGED << cacheVars, isConnected, shouldReconnect, reconnectTimeout,
                    exited, closing, sends, nRaw, nCmd >>
    /\ Frame

\* the reconnect timer fires and calls connect()
ReconnectTimerFires ==
    /\ ~exited
    /\ reconnectTimeout = "armed"
    /\ reconnectTimeout' = "fired"
    /\ ConnectBody
    /\ emitted' = << >>
    /\ result' = "none"
    /\ last' = Turn("reconnectTimer", "", "",
                    IF ConnectIsNoOp(isReconnecting, shouldReconnect)
                    THEN "no-op" ELSE "open")
    /\ UNCHANGED << cacheVars, isConnected, shouldReconnect, exited, closing,
                    sends, nRaw, nLink, nCmd >>
    /\ Frame

\* this.connectionTimeout after handleConnection(): cleared and set to null
ConnectTimeoutCleared(armed) == FALSE

\* the transport reports success: handleConnection()
HandleConnection ==
    /\ ~exited
    /\ nLink < budget.link
    /\ nami = "opening"
    /\ listeners["namiConnected"] > 0
    /\ nami' = "open"
    /\ connectionTimeout' = ConnectTimeoutCleared(connectionTimeout)
    /\ isConnected' = TRUE
    /\ isReconnecting' = FALSE
    /\ socketErrorListeners' = 1
    /\ emitted' = << Signal("connected") >>
    /\ nLink' = nLink + 1
    /\ result' = "none"
    /\ opens' = 0
    /\ last' = Turn("handleConnection", "", "", "")
    /\ UNCHANGED << cacheVars, shouldReconnect, staleTimers, reconnectTimeout,
                    listeners, exited, closing, sends, nRaw, nCmd >>
    /\ Frame

\* this.reconnectInterval, in milliseconds
reconnectInterval == 5000

\* faulty variant: handleDisconnection() schedules no further connect()
ReconnectTimerNever(allowed) == "null"

\* this.reconnectTimeout after handleDisconnection(): the timer cleared, and
\* a new one armed unless shutdown was requested
ReconnectTimerAfter(allowed) == IF allowed THEN "armed" ELSE "null"

\* what handleDisconnection() emits
DisconnectionSignals ==
    IF shouldReconnect
    THEN << Signal("disconnected"),
            [Signal("reconnecting") EXCEPT !.delay = reconnectInterval] >>
    ELSE << Signal("disconnected") >>

\* faulty variant: handleDisconnection() empties the cache
QueuesDroppedOnDisconnection(qs) == << >>

\* the queue map after handleDisconnection(): it is not touched
QueuesAfterDisconnection(qs) == qs

\* handleDisconnection(), preceded by the connectionError the caller emits
\* (code "" when it emits none)
HandleDisconnection(code) ==
    /\ connectionTimeout' = FALSE
    /\ reconnectTimeout' = ReconnectTimerAfter(shouldReconnect)
    /\ isConnected' = FALSE
    /\ emitted' = (IF code = "" THEN << >> ELSE << ConnectionError(code) >>)
                      \o DisconnectionSignals
    /\ result' = "none"
    /\ opens' = 0
    /\ queues' = QueuesAfterDisconnection(queues)
    /\ UNCHANGED << pendingEvents, pendingTimeouts, window, fired,
                    isReconnecting, shouldReconnect, listeners,
                    socketErrorListeners, exited, closing, sends, nRaw, nCmd >>

\* the connect-timeout timer held in this.connectionTimeout fires
ConnectTimeoutFires ==
    /\ ~exited
    /\ connectionTimeout
    /\ HandleDisconnection("TIMEOUT")
    /\ last' = Turn("connectTimeout", "", "", "current")
    /\ UNCHANGED << staleTimers, nami, nLink >>
    /\ Frame

\* a connect-timeout timer of an earlier connect() fires
StaleConnectTimeoutFires ==
    /\ ~exited
    /\ staleTimers > 0
    /\ staleTimers' = staleTimers - 1
    /\ HandleDisconnection("TIMEOUT")
    /\ last' = Turn("connectTimeout", "", "", "stale")
    /\ UNCHANGED << nami, nLink >>
    /\ Frame

\* the lifecycle notifications of the transport that end in
\* handleDisconnection(), with the code of the connectionError emitted first
TransportFailures ==
    {[event |-> "namiConnectionClose", code |-> ""],
     [event |-> "namiInvalidPeer", code |-> "INVALID_PEER"],
     [event |-> "namiConnectionError", code |-> "CONNECTION_ERROR"]}

\* the transport reports close, invalid credentials or a connection error
TransportFailure(f) ==
    /\ ~exited
    /\ nLink < budget.link
    /\ nami \in {"opening", "open"}
    /\ listeners[f.event] > 0
    /\ nami' = "idle"
    /\ HandleDisconnection(f.code)
    /\ nLink' = nLink + 1
    /\ last' = Turn(f.event, "", "", f.code)
    /\ UNCHANGED staleTimers
    /\ Frame

\* the socket of the transport reports an error
SocketError ==
    /\ ~exited
    /\ nLink < budget.link
    /\ nami \in {"opening", "open"}
    /\ socketErrorListeners > 0
    /\ nami' = "idle"
    /\ HandleDisconnection("SOCKET_ERROR")
    /\ nLink' = nLink + 1
    /\ last' = Turn("socketError", "", "", "SOCKET_ERROR")
    /\ UNCHANGED staleTimers
    /\ Frame

\* process.on('uncaughtException') with error.code ECONNREFUSED
UncaughtConnectionRefused ==
    /\ ~exited
    /\ nLink < budget.link
    /\ HandleDisconnection("")
    /\ nLink' = nLink + 1
    /\ last' = Turn("uncaughtException", "", "", "ECONNREFUSED")
    /\ UNCHANGED << staleTimers, nami >>
    /\ Frame

\* the armed debounce timers after cleanup(): clearTimeout on the value of
\* every key that ends in _timeout (which acts only if it is a Timeout
\* object), and no handle is kept once the Map is cleared
TimersAfterCleanup(pending, timers) ==
    [x \in Interfaces |->
         Released(IF pending[TimeoutKey(x)].event = "timeout"
                  THEN Cleared(timers[x])
                  ELSE timers[x])]

\* cleanup() / disconnect() / SIGINT / SIGTERM, up to `await this.nami.close()`
\* when connected, to the end otherwise
Cleanup ==
    /\ ~exited
    /\ ~closing
    /\ shouldReconnect' = FALSE
    /\ connectionTimeout' = FALSE
    /\ reconnectTimeout' = "null"
    /\ pendingEvents' = [k \in Keys |-> NoEvent]
    /\ pendingTimeouts' = TimersAfterCleanup(pendingEvents, pendingTimeouts)
    /\ window' = [x \in Interfaces |-> NoWindow]
    /\ listeners' = [n \in NamiEvents |-> 0]
    /\ socketErrorListeners' = 0
    /\ IF isConnected
       THEN /\ closing' = TRUE
            /\ nami' = "idle"
            /\ exited' = FALSE
            /\ emitted' = << >>
       ELSE /\ closing' = FALSE
            /\ nami' = nami
            /\ exited' = TRUE
            /\ emitted' = << Signal("disconnected") >>
    /\ result' = "none"
    /\ opens' = 0
    /\ last' = Turn("cleanup", "", "", IF isConnected THEN "closing" ELSE "exit")
    /\ UNCHANGED << queues, fired, isConnected, isReconnecting, staleTimers,
                    sends, nRaw, nLink, nCmd >>
    /\ Frame

\* cleanup() resumes after nami.close(): CLEANUP_ERROR if it failed, then
\* disconnected and process.exit(0)
CleanupResumes(closeFailed) ==
    /\ ~exited
    /\ closing
    /\ closing' = FALSE
    /\ exited' = TRUE
    /\ emitted' = (IF closeFailed THEN << ConnectionError("CLEANUP_ERROR") >>
                   ELSE << >>) \o << Signal("disconnected") >>
    /\ result' = "none"
    /\ opens' = 0
    /\ last' = Turn("cleanup", "", "", "exit")
    /\ UNCHANGED << cacheVars, isConnected, isReconnecting, shouldReconnect,
                    connectionTimeout, staleTimers, reconnectTimeout, listeners,
                    socketErrorListeners, nami, sends, nRaw, nLink, nCmd >>
    /\ Frame

(***************************************************************************)
(* The specification.                                                      *)
(***************************************************************************)
Next ==
    \/ \E e \in CoalescedEvents : ScheduleEventProcessing(e)
    \/ \E x \in Interfaces : ProcessPendingEvent(x)
    \/ \E e \in AddedEvents : HandleQueueMemberAdded(e)
    \/ \E e \in RemovedEvents : HandleQueueMemberRemoved(e)
    \/ HandleFullyBooted
    \/ \E op \in Commands : Command(op)
    \/ \E i \in 1..MaxInFlight, r \in QueueStatusResponses \cup CommandResponses :
           SendResponse(i, r)
    \/ \E i \in 1..MaxInFlight, later \in BOOLEAN : SendTimeout(i, later)
    \/ Connect
    \/ ReconnectTimerFires
    \/ HandleConnection
    \/ ConnectTimeoutFires
    \/ StaleConnectTimeoutFires
    \/ \E f \in TransportFailures : TransportFailure(f)
    \/ SocketError
    \/ UncaughtConnectionRefused
    \/ Cleanup
    \/ \E failed \in BOOLEAN : CleanupResumes(failed)

Spec == Init /\ [][Next]_vars

\* the timers of the connection controller fire once armed: the event loop
\* runs the callback of every timer that is not cleared
FairSpec ==
    /\ Spec
    /\ WF_vars(ConnectTimeoutFires)
    /\ WF_vars(StaleConnectTimeoutFires)
    /\ WF_vars(ReconnectTimerFires)

\* the same program attached to a switch that names its interfaces E1 and
\* E1_timeout
KeyedInit == InitWith(KeyedBudgets)

KeyedSpec == KeyedInit /\ [][Next]_vars

\* an armed debounce timer fires once its delay has elapsed, unless it is
\* cleared first
DebounceSpec ==
    /\ Spec
    /\ \A x \in Interfaces : WF_vars(ProcessPendingEvent(x))

(***************************************************************************)
(* Read accessors.                                                         *)
(***************************************************************************)
\* what Map.get returns for a missing key
Undefined == [name |-> ""]

\* getQueues()
GetQueues(qs) == qs

\* getQueue(queueName)
GetQueue(qs, q) == IF QueueIndex(qs, q) = 0 THEN Undefined ELSE qs[QueueIndex(qs, q)]

\* {...member, queue: queueName}
WithQueue(member, q) ==
    [f \in DOMAIN member \cup {"queue"} |->
        IF f = "queue" THEN q ELSE member[f]]

\* faulty variant: the filter tests the status only
AvailableIgnoringPause(qs, q) ==
    IF QueueIndex(qs, q) = 0
    THEN << >>
    ELSE LET available == SelectSeq(qs[QueueIndex(qs, q)].members,
                                    LAMBDA m : m.status = 1)
         IN  [i \in 1..Len(available) |-> WithQueue(available[i], q)]

\* getAvailableAgents(queueName)
GetAvailableAgents(qs, q) ==
    IF QueueIndex(qs, q) = 0
    THEN << >>
    ELSE LET available == SelectSeq(qs[QueueIndex(qs, q)].members,
                                    LAMBDA m : m.status = 1 /\ m.paused = 0)
         IN  [i \in 1..Len(available) |-> WithQueue(available[i], q)]

(***************************************************************************)
(* Properties.                                                             *)
(***************************************************************************)
\* the distinct elements of a sequence, in order of first appearance
RECURSIVE FirstAppearances(_)
FirstAppearances(s) ==
    IF s = << >>
    THEN << >>
    ELSE LET rest == FirstAppearances(SubSeq(s, 1, Len(s) - 1)) IN
         IF \E i \in 1..(Len(s) - 1) : s[i] = s[Len(s)]
         THEN rest
         ELSE Append(rest, s[Len(s)])

IsMerged(n) == n.type \in MergedTypes

\* the merged notifications among those the last turn emitted
Merged == SelectSeq(emitted, IsMerged)

\* queue q of the map qs has a member with extension x
Holds(qs, q, x) ==
    \E i \in 1..Len(qs) :
        qs[i].name = q /\ \E j \in 1..Len(qs[i].members) :
                              qs[i].members[j].extension = x

\* the last turn was a debounce timer firing on a pending window
Firing == last.op = "processPendingEvent" /\ last.input.event # "none"

\* the queue names of the window the last turn fired, each once, in order of
\* first appearance
FiredNames == FirstAppearances(last.window.names)

PauseMerged(old, e) ==
    [old EXCEPT !.paused = ParseInt(e.paused),
                !.pausedReason = e.pausedreason,
                !.lastPause = ParseInt(e.lastpause)]

\* C3: when a window of Pause events only fires, in every queue of the window
\* that holds the extension the member gets paused, pausedReason and
\* lastPause of the newest event and keeps every other field, and nothing
\* else in the map changes; with the extension in A and B and Pause events
\* for A then B (paused 1, reason Lunch) exactly one memberPauseChanged is
\* emitted, with queues A, B, member.paused 1 and member.pausedReason Lunch.
C3_PauseMergesThreeFields ==
    (Firing /\ last.window.kinds = {PauseKind}) =>
        LET x == last.extension
            e == last.window.newest
            old == before.queues
        IN  /\ Len(queues) = Len(old)
            /\ \A qi \in 1..Len(old) :
                   /\ queues[qi].name = old[qi].name
                   /\ Len(queues[qi].members) = Len(old[qi].members)
                   /\ \A mi \in 1..Len(old[qi].members) :
                          queues[qi].members[mi] =
                              IF /\ \E k \in 1..Len(last.window.names) :
                                        last.window.names[k] = old[qi].name
                                 /\ mi = FindIndex(old[qi].members, x)
                              THEN PauseMerged(old[qi].members[mi], e)
                              ELSE old[qi].members[mi]
            /\ ( /\ last.window.names = << "A", "B" >>
                 /\ e.paused = "1" /\ e.pausedreason = "Lunch"
                 /\ Holds(old, "A", x) /\ Holds(old, "B", x) )
               => /\ Len(Merged) = 1
                  /\ Merged[1].type = "memberPauseChanged"
                  /\ Merged[1].queues = << "A", "B" >>
                  /\ Merged[1].member.paused = 1
                  /\ Merged[1].member.pausedReason = "Lunch"
                  /\ Merged[1].paused = 1

\* Pause events for A then B, extension in both, fired: the record in B, not
\* paused before, is paused for Lunch and keeps its name
C3_Witness ==
    /\ Firing
    /\ last.window.kinds = {PauseKind}
    /\ last.window.names = << "A", "B" >>
    /\ last.window.newest.pausedreason = "Lunch"
    /\ Holds(before.queues, "A", last.extension)
    /\ \E qi \in 1..Len(queues) :
           /\ queues[qi].name = "B"
           /\ \E mi \in 1..Len(queues[qi].members) :
                  /\ queues[qi].members[mi].extension = last.extension
                  /\ before.queues[qi].members[mi].paused = 0
                  /\ queues[qi].members[mi].paused = 1
                  /\ queues[qi].members[mi].pausedReason = "Lunch"
                  /\ queues[qi].members[mi].name = "Listed"

\* C4 as stated: no queue's member list holds two entries with the same
\* extension.
C4_NoDuplicateExtension ==
    \A qi \in 1..Len(queues) :
        \A i, j \in 1..Len(queues[qi].members) :
            queues[qi].members[i].extension = queues[qi].members[j].extension
                => i = j

\* the last turn was updateQueues resuming after its await
ResyncResumed ==
    last.queue = "updateQueues" /\ last.op \in {"sendResponse", "sendTimeout"}

\* the response the last turn was given carries a usable events list
UsableResponse ==
    /\ last.op = "sendResponse"
    /\ last.input.response \notin {"null", "Error"}
    /\ last.input.hasEvents

\* C5: a full resync is atomic for consumers: the turn in which updateQueues
\* resumes leaves either the map it found or the complete map built from the
\* response, every notification it emits carries that final map, and every
\* state a read accessor can see, like every queuesUpdated notification,
\* shows the map of the end of a turn.
C5_ResyncAtomic ==
    /\ ResyncResumed =>
           /\ \/ queues = before.queues /\ emitted = << >>
              \/ /\ UsableResponse
                 /\ queues = Resynced(last.input)
                 /\ emitted = << QueuesUpdated(queues) >>
    /\ \A i \in 1..Len(emitted) :
           emitted[i].type = "queuesUpdated" =>
               emitted[i].all = GetQueues(queues)
    /\ (last.op = "updateQueues") => (queues = before.queues /\ emitted = << >>)

\* a resync replaced a non-empty map by a different one and emitted the new
\* map once
C5_Witness ==
    /\ ResyncResumed
    /\ UsableResponse
    /\ before.queues # << >>
    /\ queues # << >>
    /\ queues # before.queues
    /\ emitted = << QueuesUpdated(queues) >>

\* the last turn was a resync failing with a gateway error: NotConnected at
\* the call, Timeout, InvalidResponse (no response object) or RemoteError
ResyncFailed ==
    \/ last.op = "updateQueues" /\ ~before.isConnected
    \/ last.queue = "updateQueues" /\ last.op = "sendTimeout"
    \/ /\ last.queue = "updateQueues" /\ last.op = "sendResponse"
       /\ last.input.response \in {"null", "Error"}

\* C6 as stated: when the queue-status query of a resync fails with a gateway
\* error, the queue map is identical to its value before the resync was
\* triggered and nothing is emitted.
C6_MapAsBeforeTrigger ==
    ResyncFailed =>
        /\ queues = IF last.op = "updateQueues" THEN before.queues
                    ELSE last.trigger
        /\ emitted = << >>

\* C6: when the queue-status query of a resync fails with a gateway error,
\* the turn in which updateQueues learns of the failure leaves the queue map
\* as it found it (what other handlers did to the map while the query was in
\* flight stays) and emits no queuesUpdated (nor anything else).
C6_FailedResyncKeepsCache ==
    ResyncFailed => /\ queues = before.queues
                    /\ emitted = << >>
                    /\ last.detail \in {"NotConnected", "Timeout",
                                        "InvalidResponse", "RemoteError"}

\* the status query timed out over a cache that held a member and that a
\* handler had changed while the query was in flight
C6_Witness ==
    /\ last.queue = "updateQueues" /\ last.op = "sendTimeout"
    /\ \E qi \in 1..Len(queues) : queues[qi].members # << >>
    /\ queues # last.trigger

\* positions of the queue-definition entries of a response
ParamsAt(events) == {k \in 1..Len(events) : events[k].event = "QueueParams"}

\* the member entries that follow position k up to the next
\* queue-definition entry, as member records, in order
RECURSIVE EntriesAfter(_, _)
EntriesAfter(events, k) ==
    IF k + 1 > Len(events) \/ events[k + 1].event = "QueueParams"
    THEN << >>
    ELSE (IF events[k + 1].event = "QueueMember"
          THEN << MemberFromEntry(events[k + 1]) >>
          ELSE << >>) \o EntriesAfter(events, k + 1)

\* C7: after a successful resync the cache is exactly the map built from the
\* response: one queue per queue-definition entry name, with the statistics
\* of the entry, its members the member entries that follow the definition
\* up to the next one, in order; getQueue returns nothing for every other
\* name; definitions with 2 and 1 member entries give queues of 2 and 1.
C7_ResyncInstallsResponse ==
    (ResyncResumed /\ UsableResponse) =>
        LET events == last.input.events IN
        /\ {queues[i].name : i \in 1..Len(queues)}
               = {events[k].queue : k \in ParamsAt(events)}
        /\ \A i, j \in 1..Len(queues) : queues[i].name = queues[j].name => i = j
        /\ \A q \in QueueNames :
               (GetQueue(queues, q) = Undefined)
                   <=> (\A k \in ParamsAt(events) : events[k].queue # q)
        /\ \A i \in 1..Len(queues) :
               \E k \in ParamsAt(events) :
                   /\ events[k].queue = queues[i].name
                   /\ \A k2 \in ParamsAt(events) :
                          events[k2].queue = queues[i].name => k2 <= k
                   /\ queues[i] = [QueueFromParams(events[k])
                                      EXCEPT !.members = EntriesAfter(events, k)]
        /\ last.input = ResponseTwoQueues =>
               /\ Len(queues) = 2
               /\ Len(queues[1].members) = 2
               /\ Len(queues[2].members) = 1

\* a resync whose response does not define queue A replaced a map that held
\* A: getQueue("A") returns nothing
C7_Witness ==
    /\ ResyncResumed /\ UsableResponse
    /\ GetQueue(before.queues, "A") # Undefined
    /\ GetQueue(queues, "A") = Undefined
    /\ GetQueue(queues, "B") # Undefined

\* the number of records with extension x in a member list
Count(members, x) ==
    Cardinality({i \in 1..Len(members) : members[i].extension = x})

\* C8: member-added is idempotent: for an extension already in the named
\* queue the map is unchanged and nothing is emitted; otherwise the member is
\* appended, leaving exactly one record of it, and memberAdded then
\* queuesUpdated are emitted once each.
C8_AddIdempotent ==
    last.op = "handleQueueMemberAdded" =>
        LET q == last.queue
            x == last.extension
        IN  IF Holds(before.queues, q, x)
            THEN queues = before.queues /\ emitted = << >>
            ELSE /\ Count(GetQueue(queues, q).members, x) = 1
                 /\ Len(emitted) = 2
                 /\ emitted[1] = MemberAdded(q, MemberFromEvent(last.input))
                 /\ emitted[2] = QueuesUpdated(queues)

\* a member-added event arrived for an extension the queue already held
C8_Witness ==
    /\ last.op = "handleQueueMemberAdded"
    /\ Holds(before.queues, last.queue, last.extension)
    /\ Count(GetQueue(queues, last.queue).members, last.extension) = 1

\* C9: a member-removed event naming a queue that is not in the cache, or an
\* extension that is not in that queue, changes nothing and emits nothing.
C9_RemoveAbsentIsSilent ==
    (last.op = "handleQueueMemberRemoved"
        /\ ~Holds(before.queues, last.queue, last.extension))
    => queues = before.queues /\ emitted = << >>

\* a member-removed event named an extension that a queue holding another
\* member did not hold
C9_Witness ==
    /\ last.op = "handleQueueMemberRemoved"
    /\ GetQueue(before.queues, last.queue) # Undefined
    /\ GetQueue(before.queues, last.queue).members # << >>
    /\ ~Holds(before.queues, last.queue, last.extension)

\* C10: _send called while not connected fails at once with NotConnected:
\* nothing is handed to the transport and no timeout timer is armed (no call
\* is added to those in flight); a command returns false.
C10_NotConnectedFailsAtOnce ==
    (last.op \in Commands \cup {"updateQueues"} /\ ~before.isConnected) =>
        /\ sends = before.sends
        /\ last.detail = "NotConnected"
        /\ last.op \in Commands => result = "false"

\* a command was issued while not connected
C10_Witness ==
    /\ last.op \in Commands
    /\ ~before.isConnected
    /\ result = "false"

\* the last turn was a callback of _send: the response callback of the
\* transport or the timeout timer
GatewayCallback == last.op \in {"sendResponse", "sendTimeout"}

\* the outcomes of a gateway call
GatewayOutcomes == {"resolved", "InvalidResponse", "RemoteError", "Timeout"}

\* C11: a send dispatched while connected whose timer fires before any
\* response fails with Timeout (a command then returns false, a resync
\* changes nothing); every dispatched send settles exactly once: while it has
\* not settled its timer is armed, the first callback settles it with one of
\* the four outcomes and disarms or consumes the timer, and the timer never
\* fires on a settled call; a response arriving after the timeout has fired
\* is ignored: nothing is returned, emitted or changed.
C11_SettlesOnce ==
    /\ \A i \in 1..Len(sends) : sends[i].timer <=> ~sends[i].settled
    /\ Len(sends) <= Len(before.sends) + 1
    /\ (last.op = "sendTimeout") =>
           /\ ~last.settled
           /\ last.detail = "Timeout"
           /\ Len(sends) <= Len(before.sends)
           /\ last.queue \in Commands => result = "false"
           /\ last.queue = "updateQueues" =>
                  (queues = before.queues /\ emitted = << >>)
    /\ (last.op = "sendResponse" /\ ~last.settled) =>
           /\ last.detail \in GatewayOutcomes \ {"Timeout"}
           /\ Len(sends) = Len(before.sends) - 1
    /\ (last.op = "sendResponse" /\ last.settled) =>
           /\ last.detail = "ignored"
           /\ result = "none"
           /\ emitted = << >>
           /\ queues = before.queues
           /\ Len(sends) = Len(before.sends) - 1

\* a Success response arrived for a command that had already timed out
C11_Witness ==
    /\ last.op = "sendResponse"
    /\ last.settled
    /\ last.input.response = "Success"
    /\ \E i \in 1..Len(before.sends) :
           /\ before.sends[i].settled
           /\ before.sends[i].caller \in Commands

\* C12: each mutating operation makes exactly one gateway call and never
\* raises: called while connected it puts one call in flight and is left
\* awaiting, called while not connected it returns false at once; when its
\* call settles it returns true exactly when the response arrived in time
\* with response Success, and false on every other path.
C12_CommandsReturnBoolean ==
    /\ result \in {"none", "true", "false"}
    /\ (last.op \in Commands) =>
           IF before.isConnected
           THEN /\ Len(sends) = Len(before.sends) + 1
                /\ SubSeq(sends, 1, Len(before.sends)) = before.sends
                /\ sends[Len(sends)].caller = last.op
                /\ ~sends[Len(sends)].settled
                /\ result = "none"
           ELSE /\ sends = before.sends
                /\ result = "false"
    /\ (GatewayCallback /\ last.queue \in Commands) =>
           /\ result \in {"true", "false"}
           /\ (result = "true")
                  <=> (last.op = "sendResponse"
                          /\ last.input.response = "Success")

\* a command got a response that is neither an error nor Success and
\* returned false
C12_Witness ==
    /\ last.op = "sendResponse"
    /\ last.queue \in Commands
    /\ last.input.response = "Follows"
    /\ result = "false"

\* the last turn was a call of connect(), by the host or by the reconnect
\* timer
ConnectCalled == last.op \in {"connect", "reconnectTimer"}

\* when the last turn started a connect attempt was in flight: the transport
\* had been asked to open and had neither succeeded, timed out nor failed
AttemptInFlight == before.nami = "opening" /\ before.connectionTimeout

\* C13 as stated: connect() called while a connect attempt is in flight, or
\* after shutdown was requested, arms no connect-timeout timer, registers no
\* subscription again and does not ask the transport to open.
C13_ConnectIsNoOp ==
    (ConnectCalled /\ (AttemptInFlight \/ ~before.shouldReconnect)) =>
        /\ opens = 0
        /\ connectionTimeout = before.connectionTimeout
        /\ staleTimers = before.staleTimers
        /\ listeners = before.listeners
        /\ nami = before.nami

\* the last turn ran handleDisconnection()
DisconnectionHandled ==
    last.op \in {"connectTimeout", "namiConnectionClose", "namiInvalidPeer",
                 "namiConnectionError", "socketError", "uncaughtException"}

\* the last turn asked the transport to open
AttemptMade == ConnectCalled /\ opens = 1

\* the reconnecting signals among the notifications of the last turn
Reconnecting == SelectSeq(emitted, LAMBDA n : n.type = "reconnecting")

\* C14: the reconnect loop is unbounded.  While shutdown has not been
\* requested every disconnection handling signals reconnecting once, with the
\* delay of 5000 ms, and leaves the reconnect timer armed; and if shutdown is
\* never requested and the transport never reports success, then once a
\* connect attempt was made, connect attempts and disconnection handlings
\* both recur forever.
C14_ReconnectsForever ==
    /\ [](DisconnectionHandled /\ shouldReconnect =>
              /\ reconnectTimeout = "armed"
              /\ Len(Reconnecting) = 1
              /\ Reconnecting[1].delay = 5000
              /\ emitted[Len(emitted)].type = "reconnecting")
    /\ [](\A i \in 1..Len(Reconnecting) : Reconnecting[i].delay = 5000)
    /\ ([](shouldReconnect /\ ~isConnected) /\ <>AttemptMade)
           => ([]<>AttemptMade /\ []<>DisconnectionHandled)

\* after an earlier connect(), the reconnect timer armed by a disconnection
\* handling fired and asked the transport to open again, arming a new
\* connect-timeout timer, with the transport never having reported success
C14_Witness ==
    /\ last.op = "reconnectTimer"
    /\ opens = 1
    /\ before.reconnectTimeout = "armed"
    /\ before.listeners["namiConnected"] = 1
    /\ ~before.connectionTimeout
    /\ connectionTimeout
    /\ shouldReconnect
    /\ ~isConnected
    /\ nami = "opening"

C16_ShutdownForcesDisconnected ==
    /\ ~before.shouldReconnect => ~shouldReconnect
    /\ last.op = "cleanup" => ~shouldReconnect
    /\ ~shouldReconnect => ~isConnected
    /\ (~before.shouldReconnect /\ last.op \in Commands \cup {"updateQueues"})
           => (last.detail = "NotConnected" /\ sends = before.sends)

\* the part of C16 the code keeps: the flag is set by cleanup() and stays set
C16_FlagPersists ==
    /\ ~before.shouldReconnect => ~shouldReconnect
    /\ last.op = "cleanup" => ~shouldReconnect

\* a command issued after the shutdown request was handed to the transport
C16_SentAfterShutdown ==
    /\ ~before.shouldReconnect
    /\ last.op \in Commands
    /\ last.detail = "dispatched"

\* the last turn was a step of the connection lifecycle: connect(), the
\* reconnect timer, connection success, connect-timeout expiry or any other
\* way into handleDisconnection()
LifecycleTurn ==
    ConnectCalled \/ last.op = "handleConnection" \/ DisconnectionHandled

\* C17: no step of the connection lifecycle changes the cache: connect(),
\* connection success, connect-timeout expiry, disconnection handling and
\* the firing of the reconnect timer leave the queue map and the
\* pending-event table as they found them, and emit no cache notification.
C17_LifecycleKeepsCache ==
    LifecycleTurn =>
        /\ queues = before.queues
        /\ pendingEvents = before.pendingEvents
        /\ \A i \in 1..Len(emitted) :
               emitted[i].type \in {"connected", "disconnected",
                                    "reconnecting", "connectionError"}

\* a second connection was established, after a disconnection, over a cache
\* that holds a member and with an event pending
C17_Witness ==
    /\ last.op = "handleConnection"
    /\ before.reconnectTimeout # "null"
    /\ \E qi \in 1..Len(queues) : queues[qi].members # << >>
    /\ \E x \in Extensions : HasPending(x)

\* C18: the queue list of every pending event holds no queue name twice,
\* whatever status and pause events, repeated ones included, were received.
C18_PendingQueuesDistinct ==
    \A x \in Extensions :
        HasPending(x) =>
            /\ \A i, j \in 1..Len(pendingEvents[x].queues) :
                   pendingEvents[x].queues[i] = pendingEvents[x].queues[j]
                       => i = j
            /\ {pendingEvents[x].queues[i] :
                    i \in 1..Len(pendingEvents[x].queues)}
                   = {window[x].names[i] : i \in 1..Len(window[x].names)}

\* a window received three events naming two queues, one of them twice with
\* the other in between
C18_Witness ==
    \E x \in Extensions :
        /\ HasPending(x)
        /\ Len(window[x].names) = 3
        /\ window[x].names[1] = window[x].names[3]
        /\ window[x].names[1] # window[x].names[2]
        /\ Len(pendingEvents[x].queues) = 2

\* the positions of the members of a list with status 1 and paused 0
AvailableAt(members) ==
    {i \in 1..Len(members) : members[i].status = 1 /\ members[i].paused = 0}

\* the k-th smallest element of a set of positions
Kth(positions, k) ==
    CHOOSE i \in positions : Cardinality({j \in positions : j <= i}) = k

\* C19: for every queue map the cache reaches and every queue name Q,
\* getAvailableAgents(Q) is empty when Q is not in the cache, and otherwise
\* holds exactly the members of Q with status 1 and paused 0, in member
\* order, each with all its fields and Q's name added as queue.
C19_AvailableAgents ==
    \A q \in QueueNames \cup {"Z"} :
        LET agents == GetAvailableAgents(queues, q) IN
        IF GetQueue(queues, q) = Undefined
        THEN agents = << >>
        ELSE LET members == GetQueue(queues, q).members IN
             /\ Len(agents) = Cardinality(AvailableAt(members))
             /\ \A k \in 1..Len(agents) :
                    LET m == members[Kth(AvailableAt(members), k)] IN
                    /\ agents[k].queue = q
                    /\ DOMAIN agents[k] = DOMAIN m \cup {"queue"}
                    /\ \A f \in DOMAIN m : agents[k][f] = m[f]

\* a queue whose first member is not available (paused or not idle) and
\* whose second member is: the call returns the second member alone
C19_Witness ==
    \E q \in QueueNames :
        /\ GetQueue(queues, q) # Undefined
        /\ Len(GetQueue(queues, q).members) = 2
        /\ AvailableAt(GetQueue(queues, q).members) = {2}
        /\ GetQueue(queues, q).members[1].paused = 1
        /\ Len(GetAvailableAgents(queues, q)) = 1
        /\ GetAvailableAgents(queues, q)[1].extension
               = GetQueue(queues, q).members[2].extension

\* the record of extension x in queue q of a queue map
MemberOf(qs, q, x) ==
    GetQueue(qs, q).members[FindIndex(GetQueue(qs, q).members, x)]

StatusBuilt(e) ==
    [name |-> e.membername, extension |-> e.interface,
     stateInterface |-> e.stateinterface, membership |-> e.membership,
     penalty |-> ParseInt(e.penalty), callsTaken |-> ParseInt(e.callstaken),
     lastCall |-> ParseInt(e.lastcall), lastPause |-> ParseInt(e.lastpause),
     loginTime |-> ParseInt(e.logintime), inCall |-> ParseInt(e.incall),
     status |-> ParseInt(e.status), paused |-> ParseInt(e.paused),
     pausedReason |-> e.pausedreason, wrapupTime |-> ParseInt(e.wrapuptime)]

\* C21: when a pending window of Status kind fires, in every queue of the
\* pending queue list that holds the extension the member record is replaced,
\* at the same position of the member list, by the record built from the
\* newest payload; no other record, member list length or queue changes; and
\* afterwards the copies of the member in all those queues are identical.
C21_StatusReplacesRecord ==
    (Firing /\ last.detail = StatusKind) =>
        LET x == last.extension
            e == last.window.newest
            old == before.queues
            names == last.input.queues
            Named(q) == \E k \in 1..Len(names) : names[k] = q
        IN  /\ Len(queues) = Len(old)
            /\ \A qi \in 1..Len(old) :
                   /\ queues[qi].name = old[qi].name
                   /\ Len(queues[qi].members) = Len(old[qi].members)
                   /\ \A mi \in 1..Len(old[qi].members) :
                          queues[qi].members[mi] =
                              IF /\ Named(old[qi].name)
                                 /\ mi = FindIndex(old[qi].members, x)
                              THEN StatusBuilt(e)
                              ELSE old[qi].members[mi]
            /\ \A q1, q2 \in QueueNames :
                   ( /\ Named(q1) /\ Named(q2)
                     /\ Holds(old, q1, x) /\ Holds(old, q2, x) )
                   => MemberOf(queues, q1, x) = MemberOf(queues, q2, x)

\* a Status window over A and B fired while both queues held the extension
\* under the name the resync listed, in A followed by another member: both
\* records now are the one built from the payload, each where the old one
\* was, and the other member of A is untouched
C21_Witness ==
    /\ Firing
    /\ last.detail = StatusKind
    /\ Len(last.input.queues) = 2
    /\ Holds(before.queues, "A", last.extension)
    /\ Holds(before.queues, "B", last.extension)
    /\ MemberOf(before.queues, "A", last.extension).name = "Listed"
    /\ MemberOf(before.queues, "B", last.extension).name = "Listed"
    /\ Len(GetQueue(queues, "A").members) = 2
    /\ FindIndex(GetQueue(queues, "A").members, last.extension) = 1
    /\ GetQueue(queues, "A").members[2]
           = GetQueue(before.queues, "A").members[2]
    /\ MemberOf(queues, "A", last.extension).name = "Busy"
    /\ MemberOf(queues, "A", last.extension)
           = MemberOf(queues, "B", last.extension)

\* C22: a resync neither cancels nor drains pending events: the turn in which
\* updateQueues resumes leaves the pending-event table and the armed debounce
\* timers as they were; and when a window whose newest event arrived before
\* a resync installed the map fires afterwards, every record of the
\* extension in a queue of the window is overwritten from that stored
\* payload (built anew for Status, three fields merged for Pause), and
\* nothing is written if no such queue holds the extension any more.
C22_ResyncKeepsPending ==
    /\ (last.op \in {"sendResponse", "sendTimeout"}
            /\ last.queue = "updateQueues") =>
           /\ pendingEvents = before.pendingEvents
           /\ pendingTimeouts = before.pendingTimeouts
    /\ (Firing /\ last.window.resynced) =>
           LET x == last.extension
               e == last.input
               old == before.queues
               Named(q) == \E k \in 1..Len(e.queues) : e.queues[k] = q
           IN  /\ e = WithQueues(last.window.newest, e.queues)
               /\ Len(queues) = Len(old)
               /\ \A qi \in 1..Len(old) :
                      /\ queues[qi].name = old[qi].name
                      /\ Len(queues[qi].members) = Len(old[qi].members)
                      /\ \A mi \in 1..Len(old[qi].members) :
                             queues[qi].members[mi] =
                                 IF /\ Named(old[qi].name)
                                    /\ mi = FindIndex(old[qi].members, x)
                                 THEN IF last.detail = StatusKind
                                      THEN StatusBuilt(e)
                                      ELSE PauseMerged(old[qi].members[mi], e)
                                 ELSE old[qi].members[mi]
               /\ (\A q \in QueueNames : Named(q) => ~Holds(old, q, x))
                      => queues = old

\* a Status event was pending when a resync installed the map; its timer
\* fired afterwards and replaced the record the resync had listed by the one
\* built from the older payload
C22_Witness ==
    /\ Firing
    /\ last.window.resynced
    /\ last.detail = StatusKind
    /\ \E q \in QueueNames :
           /\ Holds(before.queues, q, last.extension)
           /\ MemberOf(before.queues, q, last.extension).name = "Listed"
           /\ MemberOf(queues, q, last.extension).name = "Busy"

\* the last turn fired the pending window of extension x
FiredFor(x) == Firing /\ last.extension = x

\* what C23 says of single turns: a raw status or pause event leaves exactly
\* one armed timer for its extension, bound to its kind, in place of the one
\* armed before, applies nothing to the queues and emits nothing; a debounce
\* timer that fires always finds its window pending, and leaves neither a
\* pending entry nor an armed timer for the extension
DebounceTurns ==
    /\ last.op = "scheduleEventProcessing" =>
           /\ pendingTimeouts[last.extension] = << Timer(last.detail) >>
           /\ HasPending(last.extension)
           /\ before.pendingEvents[last.extension].event # "none"
                  => Len(before.pendingTimeouts[last.extension]) = 1
           /\ emitted = << >>
           /\ queues = before.queues
    /\ last.op = "processPendingEvent" =>
           /\ last.input.event # "none"
           /\ before.pendingTimeouts[last.extension] = << Timer(last.detail) >>
           /\ ~HasPending(last.extension)
           /\ pendingTimeouts[last.extension] = << >>

\* C23: every raw status or pause event for an extension cancels the timer
\* armed for it and arms a fresh one, so as long as events keep arriving
\* before the timer fires nothing is applied and nothing is emitted; and
\* once they stop, the pending update fires, exactly once, unless the cache
\* is shut down first.
C23_ResetThenFiresOnce ==
    /\ []DebounceTurns
    /\ \A x \in Extensions :
           HasPending(x) ~> (FiredFor(x) \/ ~shouldReconnect)

\* three raw events for one extension each re-armed the timer before it could
\* fire; then the events stopped and the window fired, for the first time
C23_Witness ==
    /\ Firing
    /\ Len(last.window.names) = MaxWindow
    /\ fired[last.extension] = << last.window.names >>
    /\ pendingTimeouts[last.extension] = << >>
    /\ before.pendingTimeouts[last.extension] = << Timer(last.detail) >>

\* what a connect-timeout expiry signals while reconnection is permitted
TimeoutSignals ==
    << ConnectionError("TIMEOUT"), Signal("disconnected"),
       [Signal("reconnecting") EXCEPT !.delay = reconnectInterval] >>

\* C24: a connect-timeout timer that expires without a prior success signals
\* connectionError TIMEOUT, then disconnected, then reconnecting, in that
\* order and nothing else, and leaves the state Disconnected with a reconnect
\* scheduled; and once a connect attempt has succeeded, no connect-timeout
\* timer fires: none expires while the state is Connected.
C24_ExpiryOnlyWithoutSuccess ==
    /\ (last.op = "connectTimeout" /\ ~before.isConnected) =>
           /\ emitted = TimeoutSignals
           /\ ~isConnected
           /\ reconnectTimeout = "armed"
    /\ last.op = "connectTimeout" => ~before.isConnected

\* a connect-timeout timer expired while the state was Connected: TIMEOUT was
\* signalled and the state set to Disconnected over an open transport
C24_ExpiredAfterSuccess ==
    /\ last.op = "connectTimeout"
    /\ last.detail = "stale"
    /\ before.isConnected
    /\ before.nami = "open"
    /\ emitted = TimeoutSignals
    /\ ~isConnected

\* what holds of the timer whose handle is in this.connectionTimeout: when
\* it expires, connectionError TIMEOUT, then disconnected, then reconnecting
\* are signalled, in that order and nothing else, and the state is
\* Disconnected with a reconnect scheduled (so it is for any connect-timeout
\* timer that expires while reconnection is permitted); and the success of a
\* connect attempt cancels that timer, which therefore never expires while
\* the transport is open.
C24_TimeoutThenDisconnection ==
    /\ connectionTimeout => shouldReconnect
    /\ (last.op = "connectTimeout"
            /\ (last.detail = "current" \/ before.shouldReconnect)) =>
           /\ emitted = TimeoutSignals
           /\ ~isConnected
           /\ reconnectTimeout = "armed"
    /\ last.op = "handleConnection" => ~connectionTimeout
    /\ nami = "open" => ~connectionTimeout
    /\ (last.op = "connectTimeout" /\ last.detail = "current") =>
           before.nami # "open"

\* the timer of a connect attempt that the transport had not answered
\* expired: TIMEOUT, disconnected and reconnecting were signalled, in order
C24_Witness ==
    /\ last.op = "connectTimeout"
    /\ last.detail = "current"
    /\ before.nami = "opening"
    /\ before.connectionTimeout
    /\ ~before.isConnected
    /\ Len(emitted) = 3
    /\ emitted[1].type = "connectionError" /\ emitted[1].code = "TIMEOUT"
    /\ emitted[2].type = "disconnected"
    /\ emitted[3].type = "reconnecting"

\* the last turn signalled a classified connection error while reconnection
\* was permitted
ErrorSignalled ==
    /\ emitted # << >>
    /\ emitted[1].type = "connectionError"
    /\ before.shouldReconnect

\* what disconnection handling signals after the error the last turn
\* signalled first
ErrorThenSignals ==
    << emitted[1], Signal("disconnected"),
       [Signal("reconnecting") EXCEPT !.delay = reconnectInterval] >>

\* C25 as stated: every classified connection error signalled while
\* reconnection is permitted is followed, in the same turn, by disconnection
\* handling: no connect-timeout timer and no earlier reconnect timer stays
\* outstanding, the state is Disconnected, disconnected and reconnecting are
\* signalled and a new connect() is scheduled; INVALID_PEER like the others.
C25_ErrorThenDisconnection ==
    ErrorSignalled =>
        /\ emitted[1].code \in {"TIMEOUT", "INVALID_PEER", "CONNECTION_ERROR",
                                "SOCKET_ERROR", "RECONNECTION_ERROR"}
        /\ ~connectionTimeout
        /\ staleTimers = 0
        /\ ~isConnected
        /\ emitted = ErrorThenSignals
        /\ reconnectTimeout = "armed"

\* the part of C25 that holds: the timer held in this.connectionTimeout and
\* the reconnect timer are cancelled, the state is Disconnected, the three
\* notifications are signalled in order and one reconnect timer is armed
C25_HeldTimersCancelled ==
    ErrorSignalled =>
        /\ ~connectionTimeout
        /\ ~isConnected
        /\ emitted = ErrorThenSignals
        /\ reconnectTimeout = "armed"

\* invalid credentials were reported and handled while the timer of an
\* earlier connect() was still outstanding
C25_TimerLeftArmed ==
    /\ ErrorSignalled
    /\ emitted[1].code = "INVALID_PEER"
    /\ staleTimers > 0

\* the last turn handled a raw event the transport delivered
RawEventHandled ==
    last.op \in {"scheduleEventProcessing", "handleQueueMemberAdded",
                 "handleQueueMemberRemoved", "updateQueues"}

\* C26: subscriptions do not accumulate: whatever connect() calls and
\* reconnect cycles have happened, at most one handler is registered for
\* each transport lifecycle event, for the raw-event channel and for the
\* socket's error event, and a raw event is delivered to exactly one handler.
C26_OneHandlerPerEvent ==
    /\ \A n \in NamiEvents : listeners[n] <= 1
    /\ socketErrorListeners <= 1
    /\ RawEventHandled => before.listeners["namiEvent"] = 1

\* a raw event was handled after connect() had run again on a transport that
\* already carried the handlers of an earlier connect()
C26_Witness ==
    /\ RawEventHandled
    /\ before.listeners["namiEvent"] = 1
    /\ reconnectTimeout = "fired"
    /\ nLink >= 3

\* a PendingEvent exists for interface x: the Map holds a coalesced status or
\* pause event under x
PendingEventOf(x) == pendingEvents[x].event \in Kinds

\* C27: per extension, coalescing is serialized: in every reachable state
\* there is at most one armed debounce timer for an interface, and a
\* PendingEvent exists for it exactly when a debounce timer for it is armed.
C27_OneTimerPerExtension ==
    \A x \in Interfaces :
        /\ Len(pendingTimeouts[x]) <= 1
        /\ PendingEventOf(x) <=> Len(pendingTimeouts[x]) = 1

\* the switch names two interfaces E1 and E1_timeout; events for E1, for
\* E1_timeout and for E1 again arrived within one window: two debounce timers
\* are armed for E1 and the event of E1_timeout is no longer in the Map
C27_TwoTimersArmed ==
    /\ Len(pendingTimeouts["E1"]) = 2
    /\ Len(pendingTimeouts[TimeoutKey("E1")]) = 1
    /\ ~PendingEventOf(TimeoutKey("E1"))

\* the queue map a Pause firing must leave, old being the map before it:
\* in every queue the fired window names, the first record of the extension
\* with the three pause fields of the stored payload, everything else as it
\* was
ApplyExpected(old) ==
    [qi \in 1..Len(old) |->
         [old[qi] EXCEPT !.members =
              [mi \in 1..Len(old[qi].members) |->
                   IF /\ \E k \in 1..Len(last.window.names) :
                             last.window.names[k] = old[qi].name
                      /\ mi = FindIndex(old[qi].members, last.extension)
                   THEN PauseMerged(old[qi].members[mi], last.input)
                   ELSE old[qi].members[mi]]]]

\* the last turn fired a window that held a Status event and whose last
\* event was a Pause event
MixedEndingInPause ==
    /\ Firing
    /\ StatusKind \in last.window.kinds
    /\ last.window.newest.event = PauseKind

\* some queue named in the fired window held the extension
MemberOfWindow ==
    \E k \in 1..Len(last.window.names) :
        Holds(before.queues, last.window.names[k], last.extension)

C29_NoReconnectWhileConnected ==
    isConnected => reconnectTimeout # "armed"

\* the reconnect timer, armed when the connect timeout expired, fired after
\* the transport had reported success, and connect() opened the transport
\* again over the established connection
C29_ReopenedWhileConnected ==
    /\ last.op = "reconnectTimer"
    /\ before.isConnected
    /\ before.nami = "open"
    /\ opens = 1
    /\ nami = "opening"

\* the connect-timeout timers that are armed
OutstandingConnectTimeouts ==
    (IF connectionTimeout THEN 1 ELSE 0) + staleTimers

\* C30 as stated: at most one connect-timeout timer is outstanding at any
\* time, and none expires once the transport has reported the success of a
\* connect attempt.
C30_OneConnectTimeout ==
    /\ OutstandingConnectTimeouts <= 1
    /\ last.op = "connectTimeout" => before.nami # "open"

\* the timer of the first connect() expired after the second connect() had
\* succeeded: TIMEOUT was signalled and the state set to Disconnected while
\* the transport was open
C30_TimeoutAfterSuccess ==
    /\ last.op = "connectTimeout"
    /\ last.detail = "stale"
    /\ before.isConnected
    /\ before.nami = "open"
    /\ ~isConnected
    /\ emitted[1] = ConnectionError("TIMEOUT")

\* connect() has run its body at least once and no cleanup() since: its
\* handlers are registered on the transport
Attempted == listeners["namiConnected"] > 0

\* a timer of the connection controller is pending: a connect-timeout timer
\* (the held one or one of an earlier connect()) or the reconnect timer
ControllerTimerPending ==
    \/ connectionTimeout
    \/ staleTimers > 0
    \/ reconnectTimeout = "armed"

\* C31: the connection controller never gets stuck: in every state reached
\* after the first connect() in which shutdown has not been requested and
\* the state is not Connected, a connect-timeout timer or a reconnect timer
\* is pending.
C31_NeverStuck ==
    (Attempted /\ shouldReconnect /\ ~isConnected) => ControllerTimerPending

\* an established connection was lost and the only thing that will move the
\* controller on is the reconnect timer that the disconnection armed
C31_Witness ==
    /\ last.op \in {"namiConnectionClose", "socketError", "connectTimeout"}
    /\ before.isConnected
    /\ Attempted
    /\ shouldReconnect
    /\ ~isConnected
    /\ ~connectionTimeout
    /\ staleTimers = 0
    /\ reconnectTimeout = "armed"

\* what a queue map holds apart from the field values of its members: the
\* queues in Map order, each with its own fields and the extensions of its
\* member list in order
Skeleton(qs) ==
    [i \in 1..Len(qs) |->
         [qs[i] EXCEPT !.members =
                           [j \in 1..Len(qs[i].members) |->
                                [extension |-> qs[i].members[j].extension]]]]

\* queue named q exists in qs and lists extension x
Lists(qs, q, x) ==
    /\ QueueIndex(qs, q) # 0
    /\ FindIndex(qs[QueueIndex(qs, q)].members, x) # 0

\* C32: the firing of a pending window changes only field values of members
\* that already exist: it adds and removes no queue, leaves every queue's own
\* fields alone and leaves the length and the sequence of extensions of every
\* member list as they were, also when a queue or a member the window names
\* no longer exists when it fires; and a queue the window does not name, or
\* one that does not list the extension, is not changed at all.
C32_FiringKeepsSkeleton ==
    last.op = "processPendingEvent" =>
        /\ Skeleton(queues) = Skeleton(before.queues)
        /\ \A i \in 1..Len(before.queues) :
               (\/ \A n \in 1..Len(last.window.names) :
                       last.window.names[n] # before.queues[i].name
                \/ FindIndex(before.queues[i].members, last.extension) = 0) =>
                   queues[i] = before.queues[i]

\* a window naming two queues fired after its extension had left one of them
\* (the queue is gone, or it no longer lists the extension): the record in
\* the other queue was updated and nothing else moved
C32_Witness ==
    /\ last.op = "processPendingEvent"
    /\ Len(last.window.names) = 2
    /\ queues # before.queues
    /\ \E n \in 1..2 : ~Lists(before.queues, last.window.names[n], last.extension)
    /\ \E n \in 1..2 : Lists(before.queues, last.window.names[n], last.extension)

\* the merged notifications among those of the last turn
MergedEmitted == SelectSeq(emitted, LAMBDA n : n.type \in MergedTypes)

\* queue q of the cache lists the member of merged notification n with the
\* values the notification carries: the whole record for a Status firing, the
\* three pause fields for a Pause firing
HoldsUpdated(q, n) ==
    /\ Lists(queues, q, n.member.extension)
    /\ LET held == queues[QueueIndex(queues, q)].members[
                       FindIndex(queues[QueueIndex(queues, q)].members,
                                 n.member.extension)]
       IN  IF n.type = "memberStatusChanged"
           THEN held = n.member
           ELSE /\ held.paused = n.member.paused
                /\ held.pausedReason = n.member.pausedReason
                /\ held.lastPause = n.member.lastPause

\* a firing that changed a member record emitted a merged notification
ChangeIsNotified ==
    (last.op = "processPendingEvent" /\ queues # before.queues) =>
        MergedEmitted # << >>

\* every queue a merged notification names lists the extension, updated
NotifiedQueuesHoldMember ==
    last.op = "processPendingEvent" =>
        \A i \in 1..Len(MergedEmitted) :
            \A k \in 1..Len(MergedEmitted[i].queues) :
                HoldsUpdated(MergedEmitted[i].queues[k], MergedEmitted[i])

\* C33: whenever the firing of a pending window changes a member record in
\* some queue, a merged notification is emitted for that firing, and every
\* queue named in an emitted merged notification lists the extension with
\* the updated values when it is emitted, also when the member was removed
\* from, or was never in, some of the pending queues, the first one included.
C33_ChangesNotifiedAndNamedQueuesHold ==
    /\ ChangeIsNotified
    /\ NotifiedQueuesHoldMember

\* a window fired, changed the record of the extension in a queue it names,
\* and emitted no merged notification: the first queue it names does not
\* list the extension
C33_SilentChange ==
    /\ last.op = "processPendingEvent"
    /\ queues # before.queues
    /\ MergedEmitted = << >>
    /\ ~Lists(queues, last.window.names[1], last.extension)

\* a merged notification names a queue that does not list the extension
C33_NamesQueueWithoutMember ==
    /\ last.op = "processPendingEvent"
    /\ MergedEmitted # << >>
    /\ \E k \in 1..Len(MergedEmitted[1].queues) :
           ~Lists(queues, MergedEmitted[1].queues[k], last.extension)
=============================================================================
